---- MODULE Spec2Model ----
(***************************************************************************)
(* Model of luga/artifacts.py: the model-artifact lifecycle (model_loader, *)
(* model_deleter), the module-level bootstrap (lines 124-126) and the      *)
(* result normalisers (beautify_one, beautify_many).                       *)
(***************************************************************************)
EXTENDS Integers, Sequences, FiniteSets, TLC

VARIABLES
    model_file,      \* __MODEL_FILE on disk: [exists, content]
    pc,              \* position of the importing process in lines 124-126
    fmodel,          \* module global fmodel: [loaded, content]
    lastOp,          \* the call that ran last
    prevOp,          \* the call that ran before it
    re_download,     \* the re_download argument of the last model_loader call
    preFile,         \* model_file when the last call started
    fetches,         \* client.get calls made by the last call
    ret,             \* return value of the last model_deleter call
    raised,          \* the last call propagated an exception
    loaderReturned,  \* model_loader of line 125 returned in this process
    loadReached,     \* load_model of line 126 was called in this process
    bootFailed,      \* model_loader of line 125 raised in this process
    req,             \* arguments of the normaliser call under test
    res              \* its outcome

artVars == <<model_file, pc, fmodel, lastOp, prevOp, re_download, preFile,
             fetches, ret, raised, loaderReturned, loadReached, bootFailed>>
normVars == <<req, res>>
vars == <<model_file, pc, fmodel, lastOp, prevOp, re_download, preFile,
          fetches, ret, raised, loaderReturned, loadReached, bootFailed,
          req, res>>

(***************************************************************************)
(* Bounds                                                                  *)
(***************************************************************************)
BodyLen == 2        \* bytes in a response body
NumVersions == 2    \* distinct model binaries the server may serve

\* line 33: client.get returns whatever body the server sends and raises only
\* on transport errors; body 0 stands for a response that is not a model
\* (the page of an error status), bodies 1..NumVersions for model binaries
Bodies == {[i \in 1..BodyLen |-> v] : v \in 0..NumVersions}

(***************************************************************************)
(* Artifact lifecycle                                                      *)
(***************************************************************************)
Absent == [exists |-> FALSE, content |-> <<>>]

\* Path.exists()
Exists(f) == f.exists

\* line 25: if not __MODEL_FILE.exists() or re_download
NeedsFetch_ignoresForce(f, force) == ~Exists(f)
NeedsFetch(f, force) == ~Exists(f) \/ force

\* lines 30-32: __MODEL_FILE.open("wb") creates or truncates the file
OpenWb(f) == [exists |-> TRUE, content |-> <<>>]

\* lines 30-34: the file is opened for writing before client.get runs, so
\* what the with-block leaves on disk depends on where it stopped.
\*   "ok"            get returned, write completed
\*   "get_raises"    client.get raised (timeout, connection error)
\*   "write_partial" f_model.write raised after k bytes reached the disk
FetchOutcomes == {"ok", "get_raises", "write_partial"}

AfterFetch(f, outcome, body, k) ==
    CASE outcome = "ok" -> [OpenWb(f) EXCEPT !.content = body]
      [] outcome = "get_raises" -> OpenWb(f)
      [] outcome = "write_partial" ->
            [OpenWb(f) EXCEPT !.content = SubSeq(body, 1, k)]

\* line 52: model_file.unlink()
Unlink_keeps(f) == f
Unlink(f) == Absent

\* line 126: fasttext load_model accepts a complete model binary only
Loadable(f) == Exists(f) /\ f.content \in Bodies /\ f.content[1] # 0

\* model_loader, lines 15-35, called with re_download = force
model_loader(force) ==
    /\ preFile' = model_file
    /\ re_download' = force
    /\ prevOp' = lastOp
    /\ lastOp' = "model_loader"
    /\ ret' = "None"
    /\ IF NeedsFetch(model_file, force)
         THEN \E outcome \in FetchOutcomes, body \in Bodies, k \in 1..(BodyLen - 1) :
                /\ model_file' = AfterFetch(model_file, outcome, body, k)
                /\ fetches' = 1
                /\ raised' = (outcome # "ok")
         ELSE /\ model_file' = model_file
              /\ fetches' = 0
              /\ raised' = FALSE

\* lines 124-126, where an exception aborts the import
AfterEnsure_swallows(exc) == "load"
AfterEnsure(exc) == IF exc THEN "aborted" ELSE "load"

\* line 125: model_loader(model_url=__MODEL_URL)
BootstrapEnsure ==
    /\ pc = "import"
    /\ model_loader(FALSE)
    /\ pc' = AfterEnsure(raised')
    /\ loaderReturned' = ~raised'
    /\ bootFailed' = raised'
    /\ UNCHANGED <<fmodel, loadReached>>

\* line 126: fmodel = load_model(f"{__MODEL_FILE}")
BootstrapLoad ==
    /\ pc = "load"
    /\ loadReached' = TRUE
    /\ prevOp' = lastOp
    /\ lastOp' = "load_model"
    /\ preFile' = model_file
    /\ ret' = "None"
    /\ fetches' = 0
    /\ IF Loadable(model_file)
         THEN /\ fmodel' = [loaded |-> TRUE, content |-> model_file.content]
              /\ pc' = "ready"
              /\ raised' = FALSE
         ELSE /\ fmodel' = fmodel
              /\ pc' = "aborted"
              /\ raised' = TRUE
    /\ UNCHANGED <<model_file, re_download, loaderReturned, bootFailed>>

\* a caller of the imported module calls model_loader(model_url, re_download)
CallModelLoader ==
    /\ pc = "ready"
    /\ \E force \in BOOLEAN : model_loader(force)
    /\ UNCHANGED <<pc, fmodel, loaderReturned, loadReached, bootFailed>>

\* model_deleter, lines 38-53
CallModelDeleter ==
    /\ pc = "ready"
    /\ preFile' = model_file
    /\ prevOp' = lastOp
    /\ lastOp' = "model_deleter"
    /\ fetches' = 0
    /\ raised' = FALSE
    /\ IF ~Exists(model_file)
         THEN /\ ret' = "False"
              /\ model_file' = model_file
         ELSE /\ model_file' = Unlink(model_file)
              /\ ret' = "True"
    /\ UNCHANGED <<pc, fmodel, re_download, loaderReturned, loadReached, bootFailed>>

\* the process ends and a new one imports the module; the file stays on disk
Restart ==
    /\ pc \in {"ready", "aborted"}
    /\ pc' = "import"
    /\ fmodel' = [loaded |-> FALSE, content |-> <<>>]
    /\ loaderReturned' = FALSE
    /\ loadReached' = FALSE
    /\ bootFailed' = FALSE
    /\ lastOp' = "none"
    /\ prevOp' = "none"
    /\ ret' = "None"
    /\ raised' = FALSE
    /\ fetches' = 0
    /\ preFile' = model_file
    /\ UNCHANGED <<model_file, re_download>>

(***************************************************************************)
(* Result normalisers.  A str is a sequence of one-character strings, a    *)
(* score is a number of steps on a fixed grid.                             *)
(***************************************************************************)
MaxFrags == 3       \* fragments following the prefix in a label
MaxScore == 2       \* scores and thresholds range over 0..MaxScore
MaxLen == 2         \* length of a batch

LabelPrefix == <<"_", "_", "l", "a", "b", "e", "l", "_", "_">>   \* "__label__"
Unknown == <<"u", "n", "k", "n", "o", "w", "n">>                    \* "unknown"

\* pieces a label is built from: two language codes, the prefix itself and
\* the two halves of the prefix
Fragments == {<<"d", "a">>, <<"e", "n">>, LabelPrefix,
              <<"_", "_", "l", "a">>, <<"b", "e", "l", "_", "_">>}

RECURSIVE FragSeqs(_)
FragSeqs(n) ==
    IF n = 0 THEN {<<>>}
    ELSE LET S == FragSeqs(n - 1) IN S \cup {f \o r : f \in Fragments, r \in S}

Labels == {LabelPrefix \o r : r \in FragSeqs(MaxFrags)}
BatchLabels == {LabelPrefix \o <<"d", "a">>, LabelPrefix \o <<"e", "n">>,
                LabelPrefix \o <<"_", "_", "l", "a">> \o LabelPrefix
                            \o <<"b", "e", "l", "_", "_">>}
Scores == 0..MaxScore

\* s[i..] starts with t
StartsWith(s, t) == Len(s) >= Len(t) /\ SubSeq(s, 1, Len(t)) = t

\* t occurs in s
Contains(s, t) ==
    \E i \in 1..(Len(s) - Len(t) + 1) : SubSeq(s, i, i + Len(t) - 1) = t

\* str.replace(old, new): every non-overlapping occurrence of old, found
\* left to right, is replaced; the result is not scanned again
RECURSIVE Replace(_, _, _)
Replace(s, old, new) ==
    IF Len(s) < Len(old) THEN s
    ELSE IF SubSeq(s, 1, Len(old)) = old
         THEN new \o Replace(SubSeq(s, Len(old) + 1, Len(s)), old, new)
         ELSE <<Head(s)>> \o Replace(Tail(s), old, new)

\* lines 56-61: the frozen dataclass and its defaults
Language(name, score) == [name |-> name, score |-> score]
DefaultLanguage == Language(Unknown, 0)

\* lines 80, 101: score_.squeeze().item() of a one-element array
Squeeze(score_) == score_[1]

\* beautify_one, lines 73-85; response = (language, score_)
beautify_one_le(response, threshold) ==
    LET language == response[1]
        score == Squeeze(response[2])
    IN IF score <= threshold
         THEN DefaultLanguage
         ELSE Language(Replace(language[1], LabelPrefix, <<>>), score)

beautify_one_nostrip(response, threshold) ==
    LET language == response[1]
        score == Squeeze(response[2])
    IN IF score < threshold
         THEN DefaultLanguage
         ELSE Language(language[1], score)

beautify_one(response, threshold) ==
    LET language == response[1]
        score == Squeeze(response[2])
    IN IF score < threshold
         THEN DefaultLanguage
         ELSE Language(Replace(language[1], LabelPrefix, <<>>), score)

Min(a, b) == IF a < b THEN a ELSE b

\* line 100: zip(languages, scores) stops at the shorter sequence
Zip(languages, scores) ==
    [i \in 1..Min(Len(languages), Len(scores)) |-> <<languages[i], scores[i]>>]

Returned(value, is_array) ==
    [state |-> "done", raised |-> "none", value |-> value, is_array |-> is_array]
Raised(exc) ==
    [state |-> "done", raised |-> exc, value |-> <<>>, is_array |-> FALSE]

\* beautify_many, lines 88-117.  The local name results is bound only by
\* line 112; lines 115 and 117 read it.
beautify_many(responses, threshold, only_language, to_array) ==
    LET languages == responses[1]
        scores == responses[2]
        pairs == Zip(languages, scores)
        results_ == [i \in 1..Len(pairs) |->
                        LET lang == pairs[i][1]
                            score == Squeeze(pairs[i][2])
                        IN IF score < threshold
                             THEN DefaultLanguage
                             ELSE Language(Replace(lang[1], LabelPrefix, <<>>), score)]
        \* lines 111-112: the only assignment to results
        bound == only_language
        results == [i \in 1..Len(results_) |-> results_[i].name]
    IN IF to_array
         THEN \* line 115: array(results) reads results
              IF bound THEN Returned(results, TRUE)
                       ELSE Raised("UnboundLocalError")
         ELSE \* line 117: return results
              IF bound THEN Returned(results, FALSE)
                       ELSE Raised("UnboundLocalError")

RECURSIVE SeqsUpTo(_, _)
SeqsUpTo(S, n) ==
    IF n = 0 THEN {<<>>}
    ELSE LET R == SeqsUpTo(S, n - 1) IN R \cup {<<x>> \o r : x \in S, r \in R}

\* calls of beautify_one: (("__label__da",), array([0.99]))
OneRequests ==
    {[fn |-> "beautify_one", responses |-> << <<l>>, <<c>> >>, threshold |-> t,
      only_language |-> FALSE, to_array |-> FALSE] :
        l \in Labels, c \in Scores, t \in Scores}

\* calls of beautify_many: ([["__label__da"], ...], [array([0.99]), ...])
ManyRequests ==
    {[fn |-> "beautify_many", responses |-> <<ls, cs>>, threshold |-> t,
      only_language |-> o, to_array |-> a] :
        ls \in SeqsUpTo({<<l>> : l \in BatchLabels}, MaxLen),
        cs \in SeqsUpTo({<<c>> : c \in Scores}, MaxLen),
        t \in Scores, o \in BOOLEAN, a \in BOOLEAN}

CallBeautifyOne ==
    /\ req.fn = "beautify_one"
    /\ res.state = "pending"
    /\ res' = Returned(beautify_one(req.responses, req.threshold), FALSE)
    /\ UNCHANGED req

CallBeautifyMany ==
    /\ req.fn = "beautify_many"
    /\ res.state = "pending"
    /\ res' = beautify_many(req.responses, req.threshold, req.only_language,
                            req.to_array)
    /\ UNCHANGED req

NoReq == [fn |-> "none", responses |-> <<>>, threshold |-> 0,
          only_language |-> FALSE, to_array |-> FALSE]
NoRes == [state |-> "idle", raised |-> "none", value |-> <<>>, is_array |-> FALSE]
Pending == [state |-> "pending", raised |-> "none", value |-> <<>>, is_array |-> FALSE]

Init ==
    /\ model_file \in {Absent} \cup {[exists |-> TRUE, content |-> b] : b \in Bodies}
    /\ pc = "import"
    /\ fmodel = [loaded |-> FALSE, content |-> <<>>]
    /\ lastOp = "none"
    /\ prevOp = "none"
    /\ re_download = FALSE
    /\ preFile = model_file
    /\ fetches = 0
    /\ ret = "None"
    /\ raised = FALSE
    /\ loaderReturned = FALSE
    /\ loadReached = FALSE
    /\ bootFailed = FALSE
    /\ req = NoReq
    /\ res = NoRes

Next ==
    \/ BootstrapEnsure /\ UNCHANGED normVars
    \/ BootstrapLoad /\ UNCHANGED normVars
    \/ CallModelLoader /\ UNCHANGED normVars
    \/ CallModelDeleter /\ UNCHANGED normVars
    \/ Restart /\ UNCHANGED normVars

Spec == Init /\ [][Next]_vars

\* the normalisers are pure: every call starts from its arguments alone
InitNorm ==
    /\ model_file = Absent
    /\ pc = "import"
    /\ fmodel = [loaded |-> FALSE, content |-> <<>>]
    /\ lastOp = "none"
    /\ prevOp = "none"
    /\ re_download = FALSE
    /\ preFile = model_file
    /\ fetches = 0
    /\ ret = "None"
    /\ raised = FALSE
    /\ loaderReturned = FALSE
    /\ loadReached = FALSE
    /\ bootFailed = FALSE
    /\ req \in OneRequests \cup ManyRequests
    /\ res = Pending

NextNorm ==
    \/ CallBeautifyOne /\ UNCHANGED artVars
    \/ CallBeautifyMany /\ UNCHANGED artVars

SpecNorm == InitNorm /\ [][NextNorm]_vars

(***************************************************************************)
(* Properties of the artifact lifecycle and the bootstrap (Spec)           *)
(***************************************************************************)
IsComplete(f) == Exists(f) /\ f.content \in Bodies

\* C1: a model_loader call makes no fetch and leaves the file as it was when
\* the file exists and re_download is false, and makes exactly one fetch
\* when re_download is true, whether or not the file existed.
C1_FetchCount ==
    lastOp = "model_loader" =>
        /\ (Exists(preFile) /\ ~re_download) => (fetches = 0 /\ model_file = preFile)
        /\ re_download => fetches = 1

C1_Witness ==
    /\ lastOp = "model_loader"
    /\ re_download
    /\ Exists(preFile)
    /\ fetches = 1

\* C2: model_deleter returns True exactly when the file existed at the call,
\* never raises because the file is absent, and leaves the file absent; the
\* second of two consecutive calls returns False.
C2_Evict ==
    lastOp = "model_deleter" =>
        /\ ~raised
        /\ (ret = "True") <=> Exists(preFile)
        /\ ret \in {"True", "False"}
        /\ ~Exists(model_file)
        /\ prevOp = "model_deleter" => ret = "False"

C2_Witness ==
    /\ lastOp = "model_deleter"
    /\ prevOp = "model_deleter"
    /\ ret = "False"
    /\ ~Exists(model_file)

\* C3: the body is persisted atomically: the cache path never holds an empty
\* or truncated file, so a model_loader call that skips the fetch found a
\* complete artifact.
C3_AtomicPersist ==
    /\ Exists(model_file) => IsComplete(model_file)
    /\ (lastOp = "model_loader" /\ fetches = 0) => IsComplete(preFile)

OneDone == req.fn = "beautify_one" /\ res.state = "done"
ManyDone == req.fn = "beautify_many" /\ res.state = "done"
EqualLength == Len(req.responses[1]) = Len(req.responses[2])

\* what beautify_one yields for the i-th pair of a batch
PerElement(i) ==
    beautify_one(<<req.responses[1][i], req.responses[2][i]>>, req.threshold)

\* the remainder of a label after its leading prefix
Remainder(label) == SubSeq(label, Len(LabelPrefix) + 1, Len(label))

\* C4: beautify_one returns Language("unknown", 0.0) exactly when the score
\* is below the threshold; at score = threshold the result is not the
\* sentinel and carries the score; the sentinel's score is 0.
C4_ThresholdGate ==
    OneDone =>
        LET c == Squeeze(req.responses[2])
            t == req.threshold
            out == res.value
        IN /\ (out = DefaultLanguage) <=> (c < t)
           /\ c = t => (out # DefaultLanguage /\ out.score = c)
           /\ c >= t => out.score = c
           /\ out = DefaultLanguage => out.score = 0

C4_Witness ==
    /\ OneDone
    /\ Squeeze(req.responses[2]) = req.threshold
    /\ req.threshold > 0
    /\ res.value # DefaultLanguage
    /\ res.value.score = req.threshold

\* C5: with only_language = false and to_array = false, beautify_many on
\* equal-length input returns the sequence of Language values, one per pair,
\* and does not raise.
C5_DefaultFlags ==
    (ManyDone /\ EqualLength /\ ~req.only_language /\ ~req.to_array) =>
        /\ res.raised = "none"
        /\ res.value = [i \in 1..Len(req.responses[1]) |-> PerElement(i)]

\* C6: on equal-length input, the output with only_language = true is the
\* sequence of name fields of the output with only_language = false.
C6_NamesOfLanguages ==
    (ManyDone /\ EqualLength /\ req.only_language) =>
        LET full == beautify_many(req.responses, req.threshold, FALSE, req.to_array)
        IN /\ res.raised = "none"
           /\ full.raised = "none"
           /\ Len(res.value) = Len(full.value)
           /\ \A i \in 1..Len(res.value) : res.value[i] = full.value[i].name

\* C7: on equal-length input, beautify_many produces one output element per
\* pair, the i-th being what beautify_one yields for the i-th pair (its name
\* when only_language is set).
C7_OrderAndLength ==
    (ManyDone /\ EqualLength) =>
        /\ res.raised = "none"
        /\ Len(res.value) = Len(req.responses[1])
        /\ \A i \in 1..Len(res.value) :
              IF req.only_language
                THEN res.value[i] = PerElement(i).name
                ELSE res.value[i] = PerElement(i)

\* C8: when the two sequences differ in length, beautify_many fails (with a
\* length-mismatch error); it never returns a result, in particular not one
\* truncated to the shorter sequence.  The kind of the error is left open, so
\* only a call that returns violates this.
C8_LengthMismatch ==
    (ManyDone /\ ~EqualLength) => res.raised # "none"

\* C10 as stated: for every label that starts with "__label__", whatever
\* follows, a name that cleared the threshold never contains "__label__".
C10_NeverContainsPrefix ==
    /\ (OneDone /\ Squeeze(req.responses[2]) >= req.threshold
          /\ StartsWith(req.responses[1][1], LabelPrefix)) =>
            ~Contains(res.value.name, LabelPrefix)
    /\ (ManyDone /\ res.raised = "none") =>
          \A i \in 1..Len(res.value) :
              (Squeeze(req.responses[2][i]) >= req.threshold
                 /\ StartsWith(req.responses[1][i][1], LabelPrefix)) =>
                  ~Contains(res.value[i], LabelPrefix)

\* C10 amended: for every label that is "__label__" followed by a remainder
\* that does not itself contain "__label__", a name that cleared the
\* threshold is that remainder and does not contain "__label__".
C10_PrefixStripped ==
    /\ (OneDone /\ Squeeze(req.responses[2]) >= req.threshold
          /\ StartsWith(req.responses[1][1], LabelPrefix)
          /\ ~Contains(Remainder(req.responses[1][1]), LabelPrefix)) =>
            /\ res.value.name = Remainder(req.responses[1][1])
            /\ ~Contains(res.value.name, LabelPrefix)
    /\ (ManyDone /\ res.raised = "none") =>
          \A i \in 1..Len(res.value) :
              (Squeeze(req.responses[2][i]) >= req.threshold
                 /\ StartsWith(req.responses[1][i][1], LabelPrefix)
                 /\ ~Contains(Remainder(req.responses[1][i][1]), LabelPrefix)) =>
                  /\ res.value[i] = Remainder(req.responses[1][i][1])
                  /\ ~Contains(res.value[i], LabelPrefix)

C10_Witness ==
    /\ OneDone
    /\ Squeeze(req.responses[2]) >= req.threshold
    /\ StartsWith(req.responses[1][1], LabelPrefix)
    /\ Len(Remainder(req.responses[1][1])) > Len(LabelPrefix)
    /\ ~Contains(Remainder(req.responses[1][1]), LabelPrefix)
    /\ res.value.name = Remainder(req.responses[1][1])
====
